---- MODULE Spec2Model ----
(***************************************************************************)
(* Model of partitions-cli: the path-to-metadata decoder                   *)
(* (MusicSheet::try_from, src/src/types.rs) and the discovery and parallel *)
(* compilation of the sheets (get_ly_files, compile_lilypond,              *)
(* src/src/main.rs).                                                       *)
(*                                                                         *)
(* Strings.  Every string the decoder handles is split on, or joined with, *)
(* the character '_'.  A string is therefore represented by the sequence   *)
(* of its '_'-free pieces: "saxophone_alto" is <<"saxophone", "alto">>,    *)
(* "ClefFa" is <<"ClefFa">> and the empty string is <<"">>.  With this     *)
(* representation str.split("_") is the identity, format!("{a}_{b}") is    *)
(* the concatenation a \o b, and string equality is sequence equality      *)
(* (case-sensitive, as in Rust).                                           *)
(*                                                                         *)
(* Paths.  A path is [comps, suffix]: comps is the sequence of its         *)
(* components (each a string as above), the last one being the file name   *)
(* without its suffix; suffix is what follows (".ly", ".txt", "").         *)
(***************************************************************************)
EXTENDS Naturals, Sequences, FiniteSets, TLC

VARIABLES
    pc,            \* position of the program
    source,        \* the path handed to MusicSheet::try_from
    decoded,       \* the Result it returned
    walk,          \* the entries WalkDir yields, in iterator order
    args,          \* LilypondArgs
    music_sheets,  \* the Vec<MusicSheet> get_ly_files returned
    todo,          \* indices of music_sheets no rayon worker has taken yet
    thread,        \* per worker thread: what it is doing
    invoked,       \* per index: how many times lilypond was invoked for it
    outcome,       \* what Command::output returned, per index it returned for
    running,       \* the indices whose lilypond process is running
    stdout         \* the lines printed, in order

vars == <<pc, source, decoded, walk, args, music_sheets, todo, thread,
          invoked, outcome, running, stdout>>

None == "None"

----------------------------------------------------------------------------
(* The enumerations and their strum string conversions.                    *)

Instrument ==
    {"Baryton", "Basse", "Bugle", "CaisseClaire", "Clarinette", "Contrebasse",
     "Cor", "Euphonium", "Flute", "GrosseCaisse", "Piccolo", "SaxophoneAlto",
     "SaxophoneBaryton", "SaxophoneSoprano", "SaxophoneTenor", "Trombone",
     "Trompette", "Tuba"}

\* Display for Instrument: serialize_all = "snake_case".
InstrumentStr(i) ==
    CASE i = "Baryton"          -> <<"baryton">>
      [] i = "Basse"            -> <<"basse">>
      [] i = "Bugle"            -> <<"bugle">>
      [] i = "CaisseClaire"     -> <<"caisse", "claire">>
      [] i = "Clarinette"       -> <<"clarinette">>
      [] i = "Contrebasse"      -> <<"contrebasse">>
      [] i = "Cor"              -> <<"cor">>
      [] i = "Euphonium"        -> <<"euphonium">>
      [] i = "Flute"            -> <<"flute">>
      [] i = "GrosseCaisse"     -> <<"grosse", "caisse">>
      [] i = "Piccolo"          -> <<"piccolo">>
      [] i = "SaxophoneAlto"    -> <<"saxophone", "alto">>
      [] i = "SaxophoneBaryton" -> <<"saxophone", "baryton">>
      [] i = "SaxophoneSoprano" -> <<"saxophone", "soprano">>
      [] i = "SaxophoneTenor"   -> <<"saxophone", "tenor">>
      [] i = "Trombone"         -> <<"trombone">>
      [] i = "Trompette"        -> <<"trompette">>
      [] i = "Tuba"             -> <<"tuba">>

Voice == {"I", "II", "III", "Solo"}

\* Voice serialized in snake_case, like the other enumerations.
VoiceStrSnakeCase(v) ==
    CASE v = "I"    -> <<"i">>
      [] v = "II"   -> <<"ii">>
      [] v = "III"  -> <<"iii">>
      [] v = "Solo" -> <<"solo">>

\* Display for Voice: no serialize_all, the variant's own name.
VoiceStr(v) == <<v>>

Clef == {"ClefFa", "ClefSol", "ClefDrums"}

\* Display for Clef: serialize_all = "snake_case".
ClefStr(c) ==
    CASE c = "ClefFa"    -> <<"clef", "fa">>
      [] c = "ClefSol"   -> <<"clef", "sol">>
      [] c = "ClefDrums" -> <<"clef", "drums">>

Tone == {"Ut", "Mib", "Fa", "Sib"}

\* Display for Tone: serialize_all = "snake_case".
ToneStr(t) ==
    CASE t = "Ut"  -> <<"ut">>
      [] t = "Mib" -> <<"mib">>
      [] t = "Fa"  -> <<"fa">>
      [] t = "Sib" -> <<"sib">>

Format == {"A4", "Carnet"}

\* Display for Format: serialize_all = "snake_case".
FormatStr(f) ==
    CASE f = "A4"     -> <<"a4">>
      [] f = "Carnet" -> <<"carnet">>

Category == {"Concerts", "Animations", "Marches"}

\* Display for Category: serialize_all = "snake_case".
CategoryStr(c) ==
    CASE c = "Concerts"   -> <<"concerts">>
      [] c = "Animations" -> <<"animations">>
      [] c = "Marches"    -> <<"marches">>

Ok(v) == [ok |-> TRUE, val |-> v]
Err(e) == [ok |-> FALSE, err |-> e]

\* EnumString's from_str: the variant whose serialization is exactly s.
InstrumentFromStr(s) ==
    IF \E i \in Instrument : InstrumentStr(i) = s
    THEN Ok(CHOOSE i \in Instrument : InstrumentStr(i) = s)
    ELSE Err("Matching variant not found")

VoiceFromStr(s) ==
    IF \E v \in Voice : VoiceStr(v) = s
    THEN Ok(CHOOSE v \in Voice : VoiceStr(v) = s)
    ELSE Err("Matching variant not found")

ClefFromStr(s) ==
    IF \E c \in Clef : ClefStr(c) = s
    THEN Ok(CHOOSE c \in Clef : ClefStr(c) = s)
    ELSE Err("Matching variant not found")

ToneFromStr(s) ==
    IF \E t \in Tone : ToneStr(t) = s
    THEN Ok(CHOOSE t \in Tone : ToneStr(t) = s)
    ELSE Err("Matching variant not found")

FormatFromStr(s) ==
    IF \E f \in Format : FormatStr(f) = s
    THEN Ok(CHOOSE f \in Format : FormatStr(f) = s)
    ELSE Err("Matching variant not found")

CategoryFromStr(s) ==
    IF \E c \in Category : CategoryStr(c) = s
    THEN Ok(CHOOSE c \in Category : CategoryStr(c) = s)
    ELSE Err("Matching variant not found")

----------------------------------------------------------------------------
(* MusicSheet::try_from.                                                   *)

\* The tokens of s from position k on (what is left in the Split iterator).
Rest(s, k) == IF k > Len(s) THEN <<>> ELSE SubSeq(s, k, Len(s))

\* Itertools::join("_") of the tokens left: the empty string when none is.
Join(toks) == IF toks = <<>> THEN <<"">> ELSE toks

\* The first token names the instrument, with the next one when it is one of
\* the three prefixes.  [ok, val |-> the instrument string, next |-> the
\* position of the first token not consumed].
InstrumentToken(file_split) ==
    LET i == file_split[1] IN
    IF i \in {"grosse", "caisse", "saxophone"}
    THEN IF Len(file_split) < 2
         THEN Err("Missing instrument name in filename")
         ELSE [ok |-> TRUE, val |-> <<i, file_split[2]>>, next |-> 3]
    ELSE [ok |-> TRUE, val |-> <<i>>, next |-> 2]

\* try_from with a percussion file name refused when tokens follow the
\* instrument.
VoiceToneClefNoExtra(instrument, rest) ==
    IF instrument \in {"CaisseClaire", "GrosseCaisse"}
    THEN IF rest # <<>> THEN Err("Unexpected token in filename")
         ELSE Ok([clef |-> "ClefDrums", voice |-> None, tone |-> None])
    ELSE IF Len(rest) < 1 THEN Err("Missing voice name in filename")
    ELSE IF Len(rest) < 2 THEN Err("Missing tone name in filename")
    ELSE LET v == VoiceFromStr(<<rest[1]>>)
             t == ToneFromStr(<<rest[2]>>)
             c == ClefFromStr(Join(Rest(rest, 3)))
         IN  IF ~v.ok THEN v
             ELSE IF ~t.ok THEN t
             ELSE Ok([clef  |-> IF c.ok THEN c.val ELSE "ClefSol",
                      voice |-> v.val,
                      tone  |-> t.val])

\* try_from with the clef parsed like the voice and the tone: Clef::from_str
\* followed by ?, a clef absent being ClefSol.
VoiceToneClefStrict(instrument, rest) ==
    IF instrument \in {"CaisseClaire", "GrosseCaisse"}
    THEN Ok([clef |-> "ClefDrums", voice |-> None, tone |-> None])
    ELSE IF Len(rest) < 1 THEN Err("Missing voice name in filename")
    ELSE IF Len(rest) < 2 THEN Err("Missing tone name in filename")
    ELSE LET v == VoiceFromStr(<<rest[1]>>)
             t == ToneFromStr(<<rest[2]>>)
             c == ClefFromStr(Join(Rest(rest, 3)))
         IN  IF ~v.ok THEN v
             ELSE IF ~t.ok THEN t
             ELSE IF Len(rest) > 2 /\ ~c.ok THEN c
             ELSE Ok([clef  |-> IF c.ok THEN c.val ELSE "ClefSol",
                      voice |-> v.val,
                      tone  |-> t.val])

\* voice, tone and clef of a given instrument from the tokens that follow it.
VoiceToneClef(instrument, rest) ==
    IF instrument \in {"CaisseClaire", "GrosseCaisse"}
    THEN Ok([clef |-> "ClefDrums", voice |-> None, tone |-> None])
    ELSE IF Len(rest) < 1 THEN Err("Missing voice name in filename")
    ELSE IF Len(rest) < 2 THEN Err("Missing tone name in filename")
    ELSE LET v == VoiceFromStr(<<rest[1]>>)
             t == ToneFromStr(<<rest[2]>>)
             c == ClefFromStr(Join(Rest(rest, 3)))
         IN  IF ~v.ok THEN v
             ELSE IF ~t.ok THEN t
             ELSE Ok([clef  |-> IF c.ok THEN c.val ELSE "ClefSol",
                      voice |-> v.val,
                      tone  |-> t.val])

\* The file name with the suffix of every clef but the default one.
PdfFilenameAnyClef(title, instrument, voice, tone, clef) ==
    title \o InstrumentStr(instrument)
          \o (IF voice # None THEN VoiceStr(voice) ELSE <<>>)
          \o (IF tone # None THEN ToneStr(tone) ELSE <<>>)
          \o (IF clef # "ClefSol" THEN ClefStr(clef) ELSE <<>>)

\* The derived file name: {title}_{instrument}[_{voice}][_{tone}][_{clef}],
\* the clef only when it is ClefFa, each field through its Display.
PdfFilename(title, instrument, voice, tone, clef) ==
    title \o InstrumentStr(instrument)
          \o (IF voice # None THEN VoiceStr(voice) ELSE <<>>)
          \o (IF tone # None THEN ToneStr(tone) ELSE <<>>)
          \o (IF clef = "ClefFa" THEN ClefStr(clef) ELSE <<>>)

\* The derived output path: "pdf", pushed the format, pushed the file name.
PdfPath(format, filename) == <<<<"pdf">>, FormatStr(format), filename>>

\* The record with its output under pdf/<category>/<format>/.
BuildSheetPerCategory(src, title, format, category, instrument, vtc) ==
    [pdf        |-> <<<<"pdf">>, CategoryStr(category), FormatStr(format),
                      PdfFilename(title, instrument, vtc.voice, vtc.tone,
                                  vtc.clef)>>,
     source     |-> src,
     instrument |-> instrument,
     clef       |-> vtc.clef,
     voice      |-> vtc.voice,
     tone       |-> vtc.tone,
     format     |-> format,
     title      |-> title,
     category   |-> category]

\* The record try_from returns once every field is decoded.
BuildSheet(src, title, format, category, instrument, vtc) ==
    [pdf        |-> PdfPath(format,
                            PdfFilename(title, instrument, vtc.voice,
                                        vtc.tone, vtc.clef)),
     source     |-> src,
     instrument |-> instrument,
     clef       |-> vtc.clef,
     voice      |-> vtc.voice,
     tone       |-> vtc.tone,
     format     |-> format,
     title      |-> title,
     category   |-> category]

TryFrom(src) ==
    LET n == Len(src.comps) IN
    IF n < 1 THEN Err("Empty or missing filename")
    ELSE IF src.suffix # ".ly" THEN Err("Cannot strip suffix '.ly'")
    ELSE IF n < 4 THEN Err("Empty or missing format")
    ELSE
    LET filename == src.comps[n]
        format   == FormatFromStr(src.comps[n - 1])
        title    == src.comps[n - 2]
        category == CategoryFromStr(src.comps[n - 3])
        i        == InstrumentToken(filename)
    IN  IF ~format.ok THEN format
        ELSE IF ~category.ok THEN category
        ELSE IF ~i.ok THEN i
        ELSE
        LET instrument == InstrumentFromStr(i.val) IN
        IF ~instrument.ok THEN instrument
        ELSE
        LET vtc == VoiceToneClef(instrument.val, Rest(filename, i.next)) IN
        IF ~vtc.ok THEN vtc
        ELSE Ok(BuildSheet(src, title, format.val, category.val,
                           instrument.val, vtc.val))

----------------------------------------------------------------------------
(* The decoder alone: try_from applied to one path.                        *)

\* The number of tokens a file name holds after its tone token.
MaxTrailing == 2

TrailingTokens == {"clef", "fa", "sol", "drums", "x", ""}

SeqsUpTo(S, n) == UNION {[1..k -> S] : k \in 0..n}

InstrumentTokens ==
    {<<"flute">>, <<"trombone">>, <<"baryton">>, <<"saxophone", "baryton">>,
     <<"saxophone", "alto">>, <<"caisse", "claire">>, <<"grosse", "caisse">>,
     <<"saxophone">>, <<"violon">>, <<"">>}

VoiceTokens == {<<>>, <<"I">>, <<"II">>, <<"ii">>, <<"Solo">>}

ToneTokens == {<<>>, <<"ut">>, <<"sib">>, <<"fa">>}

FileNames ==
    {i \o v \o t \o c : i \in InstrumentTokens, v \in VoiceTokens,
                        t \in ToneTokens,
                        c \in SeqsUpTo(TrailingTokens, MaxTrailing)}

Directories ==
    {<<<<"music">>, <<"concerts">>, <<"Valse">>, <<"a4">>>>,
     <<<<"music">>, <<"marches">>, <<"Valse", "saxophone">>, <<"carnet">>>>,
     <<<<"music">>, <<"march">>, <<"Valse">>, <<"a4">>>>,
     <<<<"music">>, <<"concerts">>, <<"Valse">>, <<"A4">>>>,
     <<<<"Valse">>, <<"a4">>>>}

\* Every file name under two well-formed directories, and the file names
\* with nothing after the tone under every directory and suffix.
DecodePaths ==
    {[comps |-> Append(d, f), suffix |-> ".ly"] :
        d \in {e \in Directories : Len(e) = 4 /\ e[4] # <<"A4">>
                                              /\ e[2] # <<"march">>},
        f \in FileNames}
    \cup
    {[comps |-> Append(d, i \o v \o t), suffix |-> s] :
        d \in Directories, i \in InstrumentTokens, v \in VoiceTokens,
        t \in ToneTokens, s \in {".ly", ".txt"}}

Idle ==
    /\ walk = <<>>
    /\ args = None
    /\ music_sheets = <<>>
    /\ todo = {}
    /\ thread = <<>>
    /\ invoked = <<>>
    /\ outcome = <<>>
    /\ running = {}
    /\ stdout = <<>>

DecodeInit ==
    /\ pc = "try_from"
    /\ source \in DecodePaths
    /\ decoded = None
    /\ Idle

Decode ==
    /\ pc = "try_from"
    /\ decoded' = TryFrom(source)
    /\ pc' = "returned"
    /\ UNCHANGED <<source, walk, args, music_sheets, todo, thread, invoked,
                   outcome, running, stdout>>

DecodeNext == Decode

SpecDecode == DecodeInit /\ [][DecodeNext]_vars

----------------------------------------------------------------------------
(* get_ly_files.                                                           *)

\* .filter(|p| p.is_file() && p.extension().is_some_and(|s| s == "ly")): a
\* file name that is nothing but ".ly" has no extension.
IsLyFile(e) ==
    /\ e.is_file
    /\ e.path.suffix = ".ly"
    /\ e.path.comps[Len(e.path.comps)] # <<"">>

\* .filter(|p| p.components().rev().nth(1) is "a4" or "carnet")
InFormatDir(p) ==
    /\ Len(p.comps) >= 2
    /\ p.comps[Len(p.comps) - 1] \in {<<"a4">>, <<"carnet">>}

\* The paths the walk hands to the decoder, in iterator order.
Candidates(w) ==
    LET entries == SelectSeq(w, IsLyFile)
        paths   == [k \in 1..Len(entries) |-> entries[k].path]
    IN  SelectSeq(paths, InFormatDir)

\* The decoding that gives up at the first path that fails to decode.
RECURSIVE DecodeUntilFailure(_)
DecodeUntilFailure(paths) ==
    IF paths = <<>> THEN <<>>
    ELSE LET r == TryFrom(Head(paths))
         IN  IF r.ok THEN <<r.val>> \o DecodeUntilFailure(Tail(paths))
             ELSE <<>>

\* .filter_map(|p| MusicSheet::try_from(p).ok())
DecodeAll(paths) ==
    LET results == [k \in 1..Len(paths) |-> TryFrom(paths[k])]
        oks     == SelectSeq(results, LAMBDA r : r.ok)
    IN  [k \in 1..Len(oks) |-> oks[k].val]

\* The filters with a voice or tone filter that lets through the sheets
\* that have no voice or tone.
KeepsAbsent(name, a, m) ==
    CASE name = "title"      -> a.title = <<>> \/ a.title = <<m.title>>
      [] name = "instrument" -> a.instrument = <<>>
                                    \/ a.instrument = <<m.instrument>>
      [] name = "format"     -> a.format = <<>> \/ a.format = <<m.format>>
      [] name = "clef"       -> a.clef = <<>> \/ a.clef = <<m.clef>>
      [] name = "voice"      -> a.voice = <<>> \/ m.voice = None
                                    \/ a.voice = <<m.voice>>
      [] name = "tone"       -> a.tone = <<>> \/ m.tone = None
                                    \/ a.tone = <<m.tone>>

\* The six .filter closures, by the name of the argument each reads.  An
\* argument is an Option: <<>> for None and <<x>> for Some(x).
Keeps(name, a, m) ==
    CASE name = "title"      -> a.title = <<>> \/ a.title = <<m.title>>
      [] name = "instrument" -> a.instrument = <<>>
                                    \/ a.instrument = <<m.instrument>>
      [] name = "format"     -> a.format = <<>> \/ a.format = <<m.format>>
      [] name = "clef"       -> a.clef = <<>> \/ a.clef = <<m.clef>>
      [] name = "voice"      -> a.voice = <<>>
                                    \/ (m.voice # None /\ a.voice = <<m.voice>>)
      [] name = "tone"       -> a.tone = <<>>
                                    \/ (m.tone # None /\ a.tone = <<m.tone>>)

\* The filters named by order, applied one after the other.
RECURSIVE ApplyFilters(_, _, _)
ApplyFilters(order, a, sheets) ==
    IF order = <<>> THEN sheets
    ELSE ApplyFilters(Tail(order), a,
                      SelectSeq(sheets, LAMBDA m : Keeps(Head(order), a, m)))

\* The order in which get_ly_files chains its filters.
FilterOrder == <<"title", "instrument", "format", "clef", "voice", "tone">>

\* if let Some(limit) = args.limit { files.iter().take(limit) }
Take(sheets, limit) ==
    IF limit = <<>> THEN sheets
    ELSE IF limit[1] >= Len(sheets) THEN sheets
    ELSE SubSeq(sheets, 1, limit[1])

GetLyFiles(w, a) ==
    Take(ApplyFilters(FilterOrder, a, DecodeAll(Candidates(w))), a.limit)

----------------------------------------------------------------------------
(* compile_lilypond.                                                       *)

\* The description of a sheet, as the sequence of its space-separated words.
Description(m) ==
    <<m.title, <<"-">>, InstrumentStr(m.instrument)>>
        \o (IF m.tone # None THEN <<ToneStr(m.tone)>> ELSE <<>>)
        \o (IF m.voice # None THEN <<VoiceStr(m.voice)>> ELSE <<>>)
        \o (IF m.clef = "ClefFa" THEN <<<<"(Clef">>, <<"de">>, <<"Fa)">>>>
                                 ELSE <<>>)
        \o <<<<"[">> \o FormatStr(m.format) \o <<"]">>>>

\* output.map_or(ExitStatus::default(), |o| o.status): the exit code
\* printed; the default status is that of a successful exit.
StatusOf(output) == IF output.ok THEN output.val ELSE 0

\* The line println! writes.
Line(m, output) == [description |-> Description(m), status |-> StatusOf(output)]

----------------------------------------------------------------------------
(* main: get_ly_files, then compile_lilypond on a pool of worker threads.  *)

\* The number of entries the walk yields.
MaxFiles == 2

\* The number of worker threads of the rayon pool.
NumThreads == 2

Threads == 1..NumThreads

Path(dirs, stem, suffix) == [comps |-> Append(dirs, stem), suffix |-> suffix]

WalkEntries ==
    {[path |-> Path(<<<<"music">>, <<"concerts">>, <<"Valse">>, <<"a4">>>>,
                    <<"flute", "I", "ut">>, ".ly"), is_file |-> TRUE],
     [path |-> Path(<<<<"music">>, <<"marches">>, <<"Valse">>, <<"a4">>>>,
                    <<"flute", "I", "ut">>, ".ly"), is_file |-> TRUE],
     [path |-> Path(<<<<"music">>, <<"concerts">>, <<"Valse">>, <<"carnet">>>>,
                    <<"flute", "I", "ut">>, ".ly"), is_file |-> TRUE],
     [path |-> Path(<<<<"music">>, <<"concerts">>, <<"Valse">>, <<"a4">>>>,
                    <<"grosse", "caisse">>, ".ly"), is_file |-> TRUE],
     [path |-> Path(<<<<"music">>, <<"concerts">>, <<"Valse">>, <<"a4">>>>,
                    <<"trombone", "II", "sib", "clef", "fa">>, ".ly"),
      is_file |-> TRUE],
     [path |-> Path(<<<<"music">>, <<"concerts">>, <<"Valse">>, <<"a4">>>>,
                    <<"trombone", "ii", "sib">>, ".ly"), is_file |-> TRUE],
     [path |-> Path(<<<<"music">>, <<"concerts">>, <<"Valse">>, <<"pdf">>>>,
                    <<"flute", "I", "ut">>, ".ly"), is_file |-> TRUE],
     [path |-> Path(<<<<"music">>, <<"concerts">>, <<"Valse">>>>,
                    <<"a4">>, ""), is_file |-> FALSE]}

\* WalkDir yields every entry of the tree once.
Walks ==
    {w \in SeqsUpTo(WalkEntries, MaxFiles) :
        \A j, k \in 1..Len(w) : j # k => w[j] # w[k]}

NoFilters ==
    [limit |-> <<>>, title |-> <<>>, instrument |-> <<>>, voice |-> <<>>,
     clef |-> <<>>, format |-> <<>>, tone |-> <<>>]

ArgsSet ==
    [limit : {<<>>}, title : {<<>>, <<<<"Valse">>>>},
     instrument : {<<>>, <<"Flute">>}, voice : {<<>>, <<"I">>},
     clef : {<<>>, <<"ClefSol">>}, format : {<<>>, <<"A4">>},
     tone : {<<>>, <<"Ut">>}]
    \cup {[NoFilters EXCEPT !.limit = <<1>>]}

\* The arguments of the runs followed through compile_lilypond.
RunArgs ==
    {NoFilters, [NoFilters EXCEPT !.limit = <<1>>],
     [NoFilters EXCEPT !.format = <<"A4">>]}

Start(argsSet) ==
    /\ pc = "main"
    /\ walk \in Walks
    /\ args \in argsSet
    /\ source = None
    /\ decoded = None
    /\ music_sheets = <<>>
    /\ todo = {}
    /\ thread = [t \in Threads |-> [st |-> "idle"]]
    /\ invoked = <<>>
    /\ outcome = <<>>
    /\ running = {}
    /\ stdout = <<>>

Init == Start(RunArgs)

\* let ly_files = get_ly_files(args); compile_lilypond(&ly_files) begins.
Main ==
    /\ pc = "main"
    /\ music_sheets' = GetLyFiles(walk, args)
    /\ todo' = 1..Len(music_sheets')
    /\ invoked' = [i \in 1..Len(music_sheets') |-> 0]
    /\ outcome' = <<>>
    /\ pc' = "compile"
    /\ UNCHANGED <<source, decoded, walk, args, thread, running, stdout>>

\* A worker whose failure to launch the process abandons the rest of the
\* batch.
SpawnOrAbort(t) ==
    /\ pc = "compile"
    /\ thread[t].st = "idle"
    /\ \E i \in todo :
        /\ invoked' = [invoked EXCEPT ![i] = @ + 1]
        /\ \/ /\ thread' = [thread EXCEPT ![t] = [st |-> "waiting", idx |-> i]]
              /\ running' = running \cup {i}
              /\ todo' = todo \ {i}
              /\ UNCHANGED outcome
           \/ /\ thread' = [thread EXCEPT ![t] =
                               [st |-> "returned", idx |-> i,
                                output |-> Err("launch")]]
              /\ outcome' = (i :> Err("launch")) @@ outcome
              /\ todo' = {}
              /\ UNCHANGED running
    /\ UNCHANGED <<pc, source, decoded, walk, args, music_sheets, stdout>>

\* A worker takes a sheet and calls Command::output: the process starts, or
\* fails to.
Spawn(t) ==
    /\ pc = "compile"
    /\ thread[t].st = "idle"
    /\ \E i \in todo :
        /\ todo' = todo \ {i}
        /\ invoked' = [invoked EXCEPT ![i] = @ + 1]
        /\ \/ /\ thread' = [thread EXCEPT ![t] = [st |-> "waiting", idx |-> i]]
              /\ running' = running \cup {i}
              /\ UNCHANGED outcome
           \/ /\ thread' = [thread EXCEPT ![t] =
                               [st |-> "returned", idx |-> i,
                                output |-> Err("launch")]]
              /\ outcome' = (i :> Err("launch")) @@ outcome
              /\ UNCHANGED running
    /\ UNCHANGED <<pc, source, decoded, walk, args, music_sheets, stdout>>

\* The process of a waiting worker exits, with a zero or non-zero status.
Exit(t) ==
    /\ pc = "compile"
    /\ thread[t].st = "waiting"
    /\ \E code \in {0, 1} :
        /\ thread' = [thread EXCEPT ![t] =
                         [st |-> "returned", idx |-> thread[t].idx,
                          output |-> Ok(code)]]
        /\ outcome' = (thread[t].idx :> Ok(code)) @@ outcome
    /\ running' = running \ {thread[t].idx}
    /\ UNCHANGED <<pc, source, decoded, walk, args, music_sheets, todo,
                   invoked, stdout>>

\* The worker prints the status line of its sheet and is free again.
Println(t) ==
    /\ pc = "compile"
    /\ thread[t].st = "returned"
    /\ stdout' = Append(stdout, Line(music_sheets[thread[t].idx],
                                     thread[t].output))
    /\ thread' = [thread EXCEPT ![t] = [st |-> "idle"]]
    /\ UNCHANGED <<pc, source, decoded, walk, args, music_sheets, todo,
                   invoked, outcome, running>>

\* for_each returns once every sheet was taken and every worker is done.
ForEachReturns ==
    /\ pc = "compile"
    /\ todo = {}
    /\ \A t \in Threads : thread[t].st = "idle"
    /\ pc' = "done"
    /\ UNCHANGED <<source, decoded, walk, args, music_sheets, todo, thread,
                   invoked, outcome, running, stdout>>

Next ==
    \/ Main
    \/ \E t \in Threads : Spawn(t)
    \/ \E t \in Threads : Exit(t)
    \/ \E t \in Threads : Println(t)
    \/ ForEachReturns

Spec == Init /\ [][Next]_vars

\* get_ly_files alone, under every combination of the filters.
FilesInit == Start(ArgsSet)

FilesNext == Main

SpecFiles == FilesInit /\ [][FilesNext]_vars

----------------------------------------------------------------------------
(* Properties of the decoder.                                              *)

StartsWith(s, p) == Len(s) >= Len(p) /\ SubSeq(s, 1, Len(p)) = p

\* The string s ends with '_' followed by the string p.
EndsWith(s, p) ==
    Len(s) > Len(p) /\ SubSeq(s, Len(s) - Len(p) + 1, Len(s)) = p

Returned == pc = "returned"

Stem(src) == src.comps[Len(src.comps)]

\* src ends in .ly and lies in <category>/<title>/<format>/ with a format
\* and a category of the enumerations.
ValidDirs(src) ==
    /\ Len(src.comps) >= 4
    /\ src.suffix = ".ly"
    /\ src.comps[Len(src.comps) - 1] \in {<<"a4">>, <<"carnet">>}
    /\ src.comps[Len(src.comps) - 3] \in
           {<<"concerts">>, <<"animations">>, <<"marches">>}

Percussion == {"CaisseClaire", "GrosseCaisse"}

\* The file name of src is <instrument i>_<voice>_<tone> and what may follow.
NamesInstrument(src, i) ==
    /\ StartsWith(Stem(src), InstrumentStr(i))
    /\ Len(Stem(src)) >= Len(InstrumentStr(i)) + 2

VoiceToken(src, i) == Stem(src)[Len(InstrumentStr(i)) + 1]

ToneToken(src, i) == Stem(src)[Len(InstrumentStr(i)) + 2]

Trailing(src, i) == Rest(Stem(src), Len(InstrumentStr(i)) + 3)

\* C3: every record try_from returns for an instrument other than
\* CaisseClaire and GrosseCaisse has a voice, a tone, and the clef ClefSol or
\* ClefFa, never ClefDrums.
C3_NonPercussionClef ==
    (Returned /\ decoded.ok /\ decoded.val.instrument \notin Percussion)
        => /\ decoded.val.voice \in Voice
           /\ decoded.val.tone \in Tone
           /\ decoded.val.clef \in {"ClefSol", "ClefFa"}

\* C4: a path with valid format and category directories whose file name
\* begins with caisse_claire or grosse_caisse decodes, whatever follows, to
\* voice = None, tone = None, clef = ClefDrums, and nothing of what follows
\* the instrument reaches the record.
C4_Percussion ==
    \A p \in {<<"caisse", "claire">>, <<"grosse", "caisse">>} :
        (Returned /\ ValidDirs(source) /\ StartsWith(Stem(source), p))
            => /\ decoded.ok
               /\ decoded.val.instrument =
                      (IF p[1] = "caisse" THEN "CaisseClaire"
                                          ELSE "GrosseCaisse")
               /\ decoded.val.voice = None
               /\ decoded.val.tone = None
               /\ decoded.val.clef = "ClefDrums"
               /\ decoded.val.pdf[3] = decoded.val.title \o p

C4_Witness ==
    /\ Returned /\ decoded.ok
    /\ decoded.val.instrument = "CaisseClaire"
    /\ Len(Stem(source)) = 4

\* The three parts of C5, with the suffix the clef adds to the file name as
\* a parameter.
ClefSuffixLaw(suffix) ==
    (Returned /\ decoded.ok) =>
        LET r == decoded.val
            filename == r.pdf[3]
        IN  /\ EndsWith(filename, suffix) <=> r.clef = "ClefFa"
            /\ \A i \in Instrument \ Percussion :
                   (/\ NamesInstrument(source, i)
                    /\ VoiceToken(source, i) \in {"I", "II", "III", "Solo"}
                    /\ ToneToken(source, i) \in {"ut", "mib", "fa", "sib"}
                    /\ Trailing(source, i) = <<"clef", "fa">>)
                       => r.clef = "ClefFa"
            /\ r.clef \in {"ClefSol", "ClefDrums"} =>
                   filename = r.title \o InstrumentStr(r.instrument)
                       \o (IF r.voice = None THEN <<>>
                           ELSE VoiceStr(r.voice))
                       \o (IF r.tone = None THEN <<>>
                           ELSE ToneStr(r.tone))

\* C5 as claimed: the derived file name ends with _ClefFa exactly when the
\* clef is ClefFa, which it is whenever the tokens after the tone are
\* clef_fa; otherwise the file name is <title>_<instrument>[_<voice>][_<tone>].
C5_SuffixClefFa == ClefSuffixLaw(<<"ClefFa">>)

\* C5 as amended: the same with the suffix _clef_fa, the clef's Display.
C5_SuffixSnakeCase == ClefSuffixLaw(<<"clef", "fa">>)

C5_Witness ==
    /\ Returned /\ decoded.ok
    /\ decoded.val.clef = "ClefFa"
    /\ EndsWith(decoded.val.pdf[3], <<"I", "sib", "clef", "fa">>)

\* The decoding of a file name <trombone>_<voice token>_sib_clef_fa.
TromboneLaw(voiceToken, voice) ==
    (/\ Returned /\ ValidDirs(source)
     /\ Stem(source) = <<"trombone", voiceToken, "sib", "clef", "fa">>)
        => /\ decoded.ok
           /\ decoded.val.instrument = "Trombone"
           /\ decoded.val.voice = voice
           /\ decoded.val.tone = "Sib"
           /\ decoded.val.clef = "ClefFa"

\* C6 as claimed: trombone_ii_sib_clef_fa decodes to Trombone, II, Sib,
\* ClefFa.
C6_TromboneLower == TromboneLaw("ii", "II")

\* C6 as amended: trombone_II_sib_clef_fa (the voice in upper case) decodes
\* to Trombone, II, Sib, ClefFa.
C6_TromboneUpper == TromboneLaw("II", "II")

C6_Witness ==
    /\ Returned /\ ValidDirs(source) /\ decoded.ok
    /\ Stem(source) = <<"trombone", "II", "sib", "clef", "fa">>

\* C8: with valid directories, a non-percussion instrument and a valid voice
\* and tone, try_from succeeds whatever follows the tone, and the clef is
\* ClefSol when nothing follows or what follows is not the name of a clef.
C8_LenientClef ==
    (Returned /\ ValidDirs(source)) =>
        \A i \in Instrument \ Percussion :
            (/\ NamesInstrument(source, i)
             /\ VoiceToken(source, i) \in {"I", "II", "III", "Solo"}
             /\ ToneToken(source, i) \in {"ut", "mib", "fa", "sib"})
                => /\ decoded.ok
                   /\ decoded.val.instrument = i
                   /\ VoiceStr(decoded.val.voice) = <<VoiceToken(source, i)>>
                   /\ ToneStr(decoded.val.tone) = <<ToneToken(source, i)>>
                   /\ (Trailing(source, i) \notin
                           {<<"clef", "fa">>, <<"clef", "sol">>,
                            <<"clef", "drums">>})
                          => decoded.val.clef = "ClefSol"

C8_Witness ==
    /\ Returned /\ ValidDirs(source) /\ decoded.ok
    /\ Stem(source) = <<"saxophone", "alto", "Solo", "ut", "clef", "x">>
    /\ decoded.val.clef = "ClefSol"

----------------------------------------------------------------------------
(* Properties of get_ly_files and compile_lilypond.                        *)

Sheets == DOMAIN music_sheets

SetOf(seq) == {seq[k] : k \in 1..Len(seq)}

\* get_ly_files has returned and no worker has started yet.
FilesReturned == pc = "compile" /\ \A i \in Sheets : invoked[i] = 0

\* C1: no two invocations of the engine, for two sheets of distinct source
\* paths, are given the same output path.
C1_DistinctOutputs ==
    \A i, j \in Sheets :
        (/\ i # j
         /\ music_sheets[i].source # music_sheets[j].source
         /\ invoked[i] > 0 /\ invoked[j] > 0)
            => music_sheets[i].pdf # music_sheets[j].pdf

Count(seq, x) == Cardinality({k \in 1..Len(seq) : seq[k] = x})

\* The status line of sheet i, from what its invocation returned.
ResultLine(i) == Line(music_sheets[i], outcome[i])

\* C2: under every interleaving and every combination of outcomes the
\* engine is invoked exactly once per sheet and one status line is printed
\* per sheet, the lines printed being a permutation of the sheets' results;
\* no outcome of one sheet stops the others (the run always goes on to its
\* end).
C2_OncePerRecord ==
    /\ \A i \in Sheets : invoked[i] <= 1
    /\ Len(stdout) <= Len(music_sheets)
    /\ pc = "compile" => ENABLED Next
    /\ pc = "done" =>
          /\ \A i \in Sheets : invoked[i] = 1 /\ i \in DOMAIN outcome
          /\ Len(stdout) = Len(music_sheets)
          /\ \A i \in Sheets :
                Count(stdout, ResultLine(i)) =
                    Cardinality({j \in Sheets : ResultLine(j) = ResultLine(i)})

C2_Witness ==
    /\ pc = "done"
    /\ Len(music_sheets) = 2
    /\ ~outcome[1].ok
    /\ outcome[2] = Ok(1)
    /\ stdout = <<ResultLine(2), ResultLine(1)>>
    /\ ResultLine(1) # ResultLine(2)

\* The fields of sheet r are those of its own source path.
OwnFields(r) ==
    LET c == r.source.comps
        n == Len(c)
    IN  /\ \E k \in 1..Len(walk) : walk[k].path = r.source
        /\ r.title = c[n - 2]
        /\ FormatStr(r.format) = c[n - 1]
        /\ CategoryStr(r.category) = c[n - 3]
        /\ StartsWith(c[n], InstrumentStr(r.instrument))

\* Two sheets of distinct source paths that agree on the fields named have
\* the same output path, and each has the fields of its own path.
SameOutput(fields) ==
    \A i, j \in Sheets :
        (/\ music_sheets[i].source # music_sheets[j].source
         /\ \A f \in fields : music_sheets[i][f] = music_sheets[j][f])
            => /\ music_sheets[i].pdf = music_sheets[j].pdf
               /\ OwnFields(music_sheets[i])
               /\ OwnFields(music_sheets[j])

\* C7 as claimed: the output path is a function of (title, instrument,
\* voice, tone, clef) alone.
C7_TupleDecidesPath ==
    SameOutput({"title", "instrument", "voice", "tone", "clef"})

\* C7 as amended: the output path is a function of (format, title,
\* instrument, voice, tone, clef).
C7_TupleAndFormatDecidePath ==
    SameOutput({"format", "title", "instrument", "voice", "tone", "clef"})

C7_Witness ==
    /\ FilesReturned
    /\ Len(music_sheets) = 2
    /\ music_sheets[1].source # music_sheets[2].source
    /\ music_sheets[1].category # music_sheets[2].category
    /\ music_sheets[1].pdf = music_sheets[2].pdf

RECURSIVE Orders(_)
\* The sequences that hold each element of S once.
Orders(S) ==
    IF S = {} THEN {<<>>}
    ELSE UNION {{<<x>> \o o : o \in Orders(S \ {x})} : x \in S}

FilterNames == {"title", "instrument", "format", "clef", "voice", "tone"}

\* The arguments with the filter name alone.
Only(name) == [NoFilters EXCEPT ![name] = args[name]]

\* C9: with no limit, what get_ly_files returns is the intersection of what
\* each given filter returns alone; a filter alone keeps exactly the sheets
\* whose field equals its value (so none whose voice or tone is absent), an
\* absent filter removes nothing, and the order of the filters is
\* immaterial.
C9_FilterConjunction ==
    (FilesReturned /\ args.limit = <<>>) =>
        LET all   == GetLyFiles(walk, NoFilters)
            given == {f \in FilterNames : args[f] # <<>>}
        IN  /\ \A m \in SetOf(all) :
                   m \in SetOf(music_sheets) <=>
                       \A f \in given : m \in SetOf(GetLyFiles(walk, Only(f)))
            /\ SetOf(music_sheets) \subseteq SetOf(all)
            /\ \A f \in given :
                   SetOf(GetLyFiles(walk, Only(f))) =
                       {m \in SetOf(all) : <<m[f]>> = args[f]}
            /\ \A f \in FilterNames \ given :
                   GetLyFiles(walk, Only(f)) = all
            /\ \A o \in Orders(given) :
                   ApplyFilters(o, args, all) = music_sheets

C9_Witness ==
    /\ FilesReturned
    /\ args.limit = <<>>
    /\ args.voice = <<"I">> /\ args.format = <<"A4">> /\ args.title = <<>>
    /\ music_sheets = <<>>
    /\ Len(GetLyFiles(walk, Only("voice"))) = 1
    /\ Len(GetLyFiles(walk, Only("format"))) = 1
    /\ \E m \in SetOf(GetLyFiles(walk, NoFilters)) : m.voice = None

\* C10: with no filter and no limit get_ly_files returns, in iterator order
\* and once each, the candidates that decode, however many of the others
\* fail to.
C10_FailuresDropped ==
    (FilesReturned /\ args = NoFilters) =>
        LET good == SelectSeq(Candidates(walk), LAMBDA p : TryFrom(p).ok)
        IN  /\ Len(music_sheets) = Len(good)
            /\ \A k \in 1..Len(good) :
                   /\ music_sheets[k].source = good[k]
                   /\ music_sheets[k] = TryFrom(good[k]).val

C10_Witness ==
    /\ FilesReturned
    /\ args = NoFilters
    /\ Len(walk) = 2
    /\ ~TryFrom(walk[1].path).ok
    /\ Candidates(walk) = <<walk[1].path, walk[2].path>>
    /\ Len(music_sheets) = 1
    /\ music_sheets[1].source = walk[2].path

====
